---- MODULE Spec2Model ----
(***************************************************************************)
(* Model of src/config/spec_main.py: the clipboard routines                *)
(* (clipboard_open, clipboard_get_text, clipboard_set_text,                *)
(* clipboard_preserve_context / clipboard_preserve_decorator and the       *)
(* hotkey functions built on them) and the URL archiver (create_url_file). *)
(*                                                                         *)
(* The OS clipboard is shared with other processes: OpenClipboard fails    *)
(* while another process has the clipboard open, and every win32clipboard  *)
(* call made without this process having it open fails as well             *)
(* (CloseClipboard then fails with error 1418).                            *)
(***************************************************************************)
EXTENDS Integers, Sequences, FiniteSets, TLC

VARIABLES
    clip,         \* clipboard content: [text |-> CF_TEXT data, uni |-> CF_UNICODETEXT data]
    holder,       \* who has the clipboard open: "none", "self", "other"
    pc,           \* position of this process inside the running hotkey function
    op,           \* the hotkey function being run ("none" when idle)
    frame,        \* the caller of the clipboard_open / clipboard_get_text in progress
    tried_times,  \* clipboard_open: local tried_times
    try_times,    \* clipboard_open: parameter try_times
    to_open,      \* clipboard_get_text / clipboard_set_text: parameter to_open
    to_close,     \* clipboard_get_text / clipboard_set_text: parameter to_close
    text_old,     \* clipboard_preserve_context: local text_old
    body,         \* the wrapped function: [state, ret] ("none", "returned", "raised")
    outcome,      \* how the hotkey function ended: [state, ret, err]
    h,            \* history of the current call (observations only)
    files,        \* create_url_file: the output directory, path -> [content, mtime]
    clock,        \* create_url_file: file system time
    calls,        \* create_url_file: the calls made so far, oldest first
    dirs,         \* open_parallel_dir: the directories that exist
    dcalls,       \* open_parallel_dir: the calls made so far, oldest first
    gen,          \* base62_text_gen: its parameters, locals and result
    arg,          \* a text function under study: its argument
    res           \* a text function under study: its result

clipVars == <<clip, holder, pc, op, frame, tried_times, try_times, to_open,
              to_close, text_old, body, outcome, h>>
urlVars == <<files, clock, calls>>
toolVars == <<dirs, dcalls, gen, arg, res>>
vars == <<clipVars, urlVars, toolVars>>

(***************************************************************************)
(* Bounds                                                                  *)
(***************************************************************************)
\* largest try_times a direct caller of clipboard_open passes
MaxTry == 3

(***************************************************************************)
(* Values                                                                  *)
(***************************************************************************)
\* Python's None, and a clipboard format that holds no data
None == "<None>"

\* default of clipboard_open's try_times
DefaultTryTimes == 10

\* the text a wrapped function writes, the text a copy keystroke puts on the
\* clipboard, the text another process writes
BodyText == "Y"
CopiedText == "U"
OtherText == "O"

\* a text whose bytes are no GBK text (such as b'\xff')
GbkInvalidText == "\\xff"

\* text.decode('gbk') returns (it raises UnicodeDecodeError otherwise)
gbk_decodes(t) == t # GbkInvalidText

\* texts on the clipboard when a hotkey function starts
InitTexts == {"", "X", GbkInvalidText}

\* return values of a wrapped function
Rets == {"r1", "r2"}

EmptyClip == [text |-> None, uni |-> None]
BothClip(t) == [text |-> t, uni |-> t]

\* What GetClipboardData(fmt) finds: the data stored in that format, or the
\* other text format's data converted to it (Windows synthesizes CF_TEXT and
\* CF_UNICODETEXT from each other); None when neither is there (the call raises).
CfText(c) == IF c.text # None THEN c.text ELSE c.uni
CfUnicode(c) == IF c.uni # None THEN c.uni ELSE c.text

WrappedOps == {"wrapped_func", "paste_text", "id_generate_paste",
               "browser_url_save", "open_parallel_dir"}
ConvOps == {"clipboard_to_lowercase", "clipboard_to_uppercase",
            "clipboard_to_pascalcase", "clipboard_to_camelcase"}
CopyOps == {"browser_url_save", "open_parallel_dir"}

NoBody == [state |-> "none", ret |-> None]
NoOutcome == [state |-> "none", ret |-> None, err |-> "none"]

\* the history of a call that has just started with the clipboard holding c
NewHist(c) ==
    [ clip0       |-> c,       \* clipboard content when the call started
      otherWrote  |-> FALSE,   \* another, unrelated process wrote the clipboard
      openCalls   |-> 0,       \* OpenClipboard calls of the current acquisition
      sleeps      |-> 0,       \* time.sleep(0.1) calls of the current acquisition
      acqFails    |-> 0,       \* failed OpenClipboard calls of the acquisition that raised
      entryFailed |-> FALSE,   \* the read at context entry raised
      wrote       |-> FALSE,   \* this call changed the clipboard (itself or by a copy keystroke)
      exitOpens   |-> 0,       \* OpenClipboard calls made by the context's exit code
      exitWrites  |-> 0,       \* EmptyClipboard / SetClipboardText calls made by the exit code
      exitAcqFailed   |-> FALSE,  \* the exit code's clipboard_open raised
      exitWriteFailed |-> FALSE,  \* one of the exit code's three writes raised
      badClose    |-> FALSE,   \* CloseClipboard was called without the clipboard held
      read        |-> None,    \* the text the body read from the clipboard
      pasted      |-> None,    \* CF_TEXT on the clipboard when the paste keystroke was sent
      heldAtPaste |-> FALSE ]  \* this process held the clipboard when the keystroke was sent

IdleHist == NewHist(EmptyClip)

(***************************************************************************)
(* Initial state: idle, nobody has the clipboard open.                     *)
(***************************************************************************)
ClipInit ==
    /\ clip \in {EmptyClip} \cup {BothClip(t) : t \in InitTexts}
    /\ holder = "none"
    /\ pc = "idle"
    /\ op = "none"
    /\ frame = "none"
    /\ tried_times = 0
    /\ try_times = 0
    /\ to_open = TRUE
    /\ to_close = TRUE
    /\ text_old = None
    /\ body = NoBody
    /\ outcome = NoOutcome
    /\ h = IdleHist

UrlIdle ==
    /\ files = << >>
    /\ clock = 0
    /\ calls = << >>

\* base62_text_gen is not running
\* (given: text_length is not None; text: the last candidate, << >> before it)
GenIdle == [pc |-> "idle", given |-> FALSE, text_length |-> 0, try_times |-> 0,
            tried_times |-> 0, generated |-> 0, text |-> << >>, result |-> None,
            rejected |-> 0]

ToolIdle ==
    /\ dirs = {}
    /\ dcalls = << >>
    /\ gen = GenIdle
    /\ arg = None
    /\ res = None

(***************************************************************************)
(* Pure helpers                                                            *)
(***************************************************************************)
\* variant: the comparison written as ">"
ExhaustedLate(tried, limit) == tried > limit

\* clipboard_open: "if tried_times >= try_times: raise"
Exhausted(tried, limit) == tried >= limit

\* variant: the test written as "if text_old:" (an empty text is not restored)
RestoreIfTruthy(t) == t # None /\ t # ""

\* variant: the test left out (the exit code always restores)
RestoreAlways(t) == TRUE

\* clipboard_preserve_context: "if text_old is not None"
RestoreNeeded(t) == t # None

\* variant: the three calls leave the clipboard as it was
WriteNothing(c, text, k) == c

\* EmptyClipboard(); SetClipboardText(text, CF_TEXT);
\* SetClipboardText(text, CF_UNICODETEXT) with the clipboard held, of which
\* the first k calls succeed and call k+1 (if k < 3) raises.
WriteWindow(c, text, k) ==
    CASE k = 0 -> c
      [] k = 1 -> EmptyClip
      [] k = 2 -> [text |-> text, uni |-> None]
      [] OTHER -> BothClip(text)

\* variant: the release written after the block instead of in "finally"
ReleaseOnSuccess(hd, cls, ok) == IF cls /\ ok THEN "none" ELSE hd

\* "finally: if to_close: CloseClipboard()" of a block entered with the
\* clipboard held by hd: who holds it afterwards, whether the block ended
\* normally (ok) or by raising
ReleaseInFinally(hd, cls, ok) == IF cls THEN "none" ELSE hd

\* how many of the three calls were made when the first k succeed
WriteCalls(k) == IF k < 3 THEN k + 1 ELSE 3

\* bytes.lower() / bytes.upper() on the one-letter texts of this model
Lower(t) ==
    CASE t = "X" -> "x" [] t = "Y" -> "y" [] t = "U" -> "u" [] t = "O" -> "o"
      [] OTHER -> t
Upper(t) ==
    CASE t = "x" -> "X" [] t = "y" -> "Y" [] t = "u" -> "U" [] t = "o" -> "O"
      [] OTHER -> t

\* the text each case-conversion function computes from a non-empty text
\* (one token: capitalize() upper-cases its letter, camel lower-cases it again)
Convert(o, t) ==
    CASE o = "clipboard_to_lowercase" -> Lower(t)
      [] o = "clipboard_to_uppercase" -> Upper(t)
      [] o = "clipboard_to_pascalcase" -> Upper(t)
      [] OTHER -> Lower(Upper(t))

(***************************************************************************)
(* Leaving a function                                                      *)
(***************************************************************************)
Finish(st, r, e) ==
    /\ pc' = "done"
    /\ outcome' = [state |-> st, ret |-> r, err |-> e]

\* The wrapped function returned r: "with" runs the generator's exit code.
BodyReturn(r) ==
    /\ body' = [state |-> "returned", ret |-> r]
    /\ pc' = "exit"
    /\ UNCHANGED outcome

\* The wrapped function raised e: contextlib throws e into the generator at
\* its "yield", which stands outside any try statement, so the generator
\* ends there and e reaches the caller of the wrapper.
BodyRaise(e) ==
    /\ body' = [state |-> "raised", ret |-> None]
    /\ Finish("raised", None, e)

\* a call of clipboard_open(try_times=n) made for caller fr
StartOpen(fr, n) ==
    /\ pc' = "open"
    /\ frame' = fr
    /\ tried_times' = 0
    /\ try_times' = n

(***************************************************************************)
(* Calls made by the hotkey engine (or, for the three clipboard helpers,   *)
(* by any caller).  The engine runs one hotkey function at a time.         *)
(***************************************************************************)
Enter(o) ==
    /\ pc = "idle"
    /\ op' = o
    /\ text_old' = None
    /\ body' = NoBody
    /\ outcome' = NoOutcome
    /\ h' = NewHist(clip)
    /\ UNCHANGED <<clip, holder, urlVars, toolVars>>

\* new_func of clipboard_preserve_decorator: "with clipboard_preserve_context()"
\* starts the generator, which calls clipboard_get_text().
call_wrapped ==
    \E o \in WrappedOps :
        /\ holder # "self"
        /\ Enter(o)
        /\ StartOpen("entry", DefaultTryTimes)
        /\ to_open' = TRUE
        /\ to_close' = TRUE

\* clipboard_to_lowercase / uppercase / pascalcase / camelcase: clipboard_open()
call_convert ==
    \E o \in ConvOps :
        /\ holder # "self"
        /\ Enter(o)
        /\ StartOpen("conv", DefaultTryTimes)
        /\ to_open' = TRUE
        /\ to_close' = TRUE

\* clipboard_open(try_times=n) called directly
call_clipboard_open ==
    \E n \in 0..MaxTry :
        /\ holder # "self"
        /\ Enter("clipboard_open")
        /\ StartOpen("open", n)
        /\ UNCHANGED <<to_open, to_close>>

\* clipboard_get_text(to_open, to_close) called directly; to_open=False is
\* for a caller that has the clipboard open
call_get_text ==
    \E opn \in BOOLEAN, cls \in BOOLEAN :
        /\ opn <=> holder # "self"
        /\ Enter("clipboard_get_text")
        /\ to_open' = opn
        /\ to_close' = cls
        /\ IF opn
           THEN StartOpen("get", DefaultTryTimes)
           ELSE /\ pc' = "get"
                /\ frame' = "get"
                /\ UNCHANGED <<tried_times, try_times>>

\* clipboard_set_text(text, to_open, to_close) called directly
call_set_text ==
    \E opn \in BOOLEAN, cls \in BOOLEAN :
        /\ opn <=> holder # "self"
        /\ Enter("clipboard_set_text")
        /\ to_open' = opn
        /\ to_close' = cls
        /\ pc' = "set"
        /\ frame' = "set"
        /\ UNCHANGED <<tried_times, try_times>>

\* the function has ended; the engine waits for the next hotkey
return_to_idle ==
    /\ pc = "done"
    /\ pc' = "idle"
    /\ op' = "none"
    /\ frame' = "none"
    /\ tried_times' = 0
    /\ try_times' = 0
    /\ to_open' = TRUE
    /\ to_close' = TRUE
    /\ text_old' = None
    /\ body' = NoBody
    /\ outcome' = NoOutcome
    /\ h' = IdleHist
    /\ UNCHANGED <<clip, holder, urlVars, toolVars>>

(***************************************************************************)
(* clipboard_open: one turn of its loop                                    *)
(***************************************************************************)
clipboard_open ==
    /\ pc = "open"
    /\ tried_times' = tried_times + 1
    /\ LET opened == holder # "other"
           raised == ~opened /\ Exhausted(tried_times + 1, try_times)
           hh == [h EXCEPT !.openCalls = @ + 1,
                           !.sleeps = IF opened \/ raised THEN @ ELSE @ + 1,
                           !.acqFails = IF raised THEN tried_times + 1 ELSE @,
                           !.exitOpens = IF frame = "restore" THEN @ + 1 ELSE @,
                           !.exitAcqFailed = @ \/ (frame = "restore" /\ raised)]
       IN
       /\ holder' = IF opened THEN "self" ELSE holder
       /\ IF ~opened /\ ~raised
          THEN \* time.sleep(0.1); continue
               /\ h' = hh
               /\ UNCHANGED <<pc, text_old, body, outcome>>
          ELSE CASE frame = "entry" ->
                    \* clipboard_preserve_context: "except Exception: text_old = None"
                    /\ pc' = IF opened THEN "get" ELSE "body"
                    /\ h' = [hh EXCEPT !.entryFailed = raised]
                    /\ UNCHANGED <<text_old, body, outcome>>
                 [] frame = "body_get" ->
                    /\ h' = hh
                    /\ UNCHANGED text_old
                    /\ IF opened
                       THEN pc' = "get" /\ UNCHANGED <<body, outcome>>
                       ELSE BodyRaise("OpenClipboard")
                 [] frame = "restore" ->
                    \* "except Exception: pass", then the finally clause
                    /\ pc' = IF opened THEN "restore_write" ELSE "restore_close"
                    /\ h' = hh
                    /\ UNCHANGED <<text_old, body, outcome>>
                 [] frame = "conv" ->
                    /\ h' = hh
                    /\ UNCHANGED <<text_old, body>>
                    /\ IF opened
                       THEN pc' = "conv" /\ UNCHANGED outcome
                       ELSE Finish("raised", None, "OpenClipboard")
                 [] frame = "get" ->
                    /\ h' = hh
                    /\ UNCHANGED <<text_old, body>>
                    /\ IF opened
                       THEN pc' = "get" /\ UNCHANGED outcome
                       ELSE Finish("raised", None, "OpenClipboard")
                 [] OTHER ->
                    \* a direct call: return with the clipboard open, or raise
                    /\ h' = hh
                    /\ UNCHANGED <<text_old, body>>
                    /\ IF opened
                       THEN Finish("returned", None, "none")
                       ELSE Finish("raised", None, "OpenClipboard")
    /\ UNCHANGED <<clip, op, frame, try_times, to_open, to_close, urlVars, toolVars>>

(***************************************************************************)
(* clipboard_get_text after its clipboard_open: the try/finally block.     *)
(* GetClipboardData(CF_TEXT) raises when the clipboard holds no text.      *)
(***************************************************************************)
clipboard_get_text ==
    /\ pc = "get"
    /\ holder = "self"
    /\ LET data == CfText(clip)
           ok == data # None
           e == IF ok THEN "none" ELSE "GetClipboardData"
       IN
       /\ holder' = ReleaseInFinally(holder, to_close, ok)
       /\ CASE frame = "entry" ->
               \* "text_old = clipboard_get_text()" / "except Exception: text_old = None"
               /\ text_old' = data
               /\ pc' = "body"
               /\ h' = [h EXCEPT !.entryFailed = ~ok]
               /\ UNCHANGED <<body, outcome>>
            [] frame = "body_get" ->
               /\ h' = [h EXCEPT !.read = data]
               /\ UNCHANGED text_old
               /\ IF ok
                  THEN pc' = "body_rest" /\ UNCHANGED <<body, outcome>>
                  ELSE BodyRaise(e)
            [] OTHER ->
               /\ UNCHANGED <<text_old, body, h>>
               /\ IF ok
                  THEN Finish("returned", data, "none")
                  ELSE Finish("raised", None, e)
    /\ UNCHANGED <<clip, op, frame, tried_times, try_times, to_open, to_close, urlVars, toolVars>>

(***************************************************************************)
(* clipboard_set_text: OpenClipboard() once, then the try/finally block.   *)
(* Called directly, by paste_text, by id_generate_paste and by the wrapped *)
(* function.                                                               *)
(***************************************************************************)
AtSetText ==
    \/ pc = "set"
    \/ pc = "body" /\ op \in {"wrapped_func", "paste_text"}
    \/ pc = "id_set"

\* the OpenClipboard calls clipboard_set_text may make before it gives up
SetTextTries == 1

clipboard_set_text ==
    /\ AtSetText
    /\ \E k \in 0..3 :
        LET openFails == to_open /\ holder = "other"
            e == IF openFails THEN "OpenClipboard"
                 ELSE IF k < 3 THEN "SetClipboardText" ELSE "none"
            hh == [h EXCEPT !.wrote = @ \/ ~openFails,
                            !.acqFails = IF openFails THEN SetTextTries ELSE @]
        IN
        /\ openFails => k = 0
        /\ clip' = IF openFails THEN clip ELSE WriteWindow(clip, BodyText, k)
        /\ holder' = IF openFails THEN holder
                     ELSE ReleaseInFinally("self", to_close, k = 3)
        /\ h' = hh
        /\ IF pc = "set"
           THEN /\ UNCHANGED body
                /\ IF e = "none"
                   THEN Finish("returned", None, "none")
                   ELSE Finish("raised", None, e)
           ELSE IF e = "none"
                THEN /\ pc' = IF op = "wrapped_func" THEN "func_end" ELSE "keys"
                     /\ UNCHANGED <<body, outcome>>
                ELSE BodyRaise(e)
    /\ UNCHANGED <<op, frame, tried_times, try_times, to_open, to_close, text_old, urlVars, toolVars>>

(***************************************************************************)
(* The wrapped functions                                                   *)
(***************************************************************************)
\* any function given to clipboard_preserve_decorator: after its clipboard
\* write it returns a value or raises
func_end ==
    /\ pc = "func_end"
    /\ \/ \E r \in Rets : BodyReturn(r)
       \/ BodyRaise("Exception")
    /\ UNCHANGED <<clip, holder, op, frame, tried_times, try_times, to_open,
                   to_close, text_old, h, urlVars, toolVars>>

\* paste_text / id_generate_paste: SendKeys('^v')()
send_keys_paste ==
    /\ pc = "keys"
    /\ h' = [h EXCEPT !.pasted = CfText(clip), !.heldAtPaste = (holder = "self")]
    /\ BodyReturn(None)
    /\ UNCHANGED <<clip, holder, op, frame, tried_times, try_times, to_open,
                   to_close, text_old, urlVars, toolVars>>

\* id_generate_paste: base62_text_gen(text_length=5) returns a token or
\* raises ValueError after try_times rejected candidates
id_generate ==
    /\ pc = "body"
    /\ op = "id_generate_paste"
    /\ \/ pc' = "id_set" /\ UNCHANGED <<body, outcome>>
       \/ BodyRaise("ValueError")
    /\ UNCHANGED <<clip, holder, op, frame, tried_times, try_times, to_open,
                   to_close, text_old, h, urlVars, toolVars>>

\* browser_url_save / open_parallel_dir: the keystrokes Ctrl+L, Ctrl+C make
\* the foreground program copy its location bar (it cannot while another
\* program has the clipboard open), then clipboard_get_text() is called
send_keys_copy ==
    /\ pc = "body"
    /\ op \in CopyOps
    /\ \E copied \in BOOLEAN :
        /\ copied => holder = "none"
        /\ clip' = IF copied THEN BothClip(CopiedText) ELSE clip
        /\ h' = [h EXCEPT !.wrote = @ \/ copied, !.openCalls = 0, !.sleeps = 0]
    /\ StartOpen("body_get", DefaultTryTimes)
    /\ UNCHANGED <<holder, op, to_open, to_close, text_old, body, outcome, urlVars, toolVars>>

\* browser_url_save: decode, create_url_file; open_parallel_dir: return on an
\* empty path, else decode, resolve and open the directory.  Either ends by
\* returning None or by raising (UnicodeDecodeError, AssertionError, OSError).
body_rest ==
    /\ pc = "body_rest"
    /\ \/ BodyReturn(None)
       \/ /\ ~(op = "open_parallel_dir" /\ h.read = "")
          /\ BodyRaise("Exception")
    /\ UNCHANGED <<clip, holder, op, frame, tried_times, try_times, to_open,
                   to_close, text_old, h, urlVars, toolVars>>

(***************************************************************************)
(* clipboard_preserve_context: the code after "yield"                      *)
(***************************************************************************)
\* "if text_old is not None:" ... "clipboard_open()"
context_exit ==
    /\ pc = "exit"
    /\ IF RestoreNeeded(text_old)
       THEN /\ StartOpen("restore", DefaultTryTimes)
            /\ h' = [h EXCEPT !.openCalls = 0, !.sleeps = 0]
            /\ UNCHANGED outcome
       ELSE /\ Finish("returned", body.ret, "none")
            /\ UNCHANGED <<frame, tried_times, try_times, h>>
    /\ UNCHANGED <<clip, holder, op, to_open, to_close, text_old, body, urlVars, toolVars>>

\* EmptyClipboard / SetClipboardText x 2 inside "try", any error ignored
restore_write ==
    /\ pc = "restore_write"
    /\ \E k \in 0..3 :
        /\ clip' = WriteWindow(clip, text_old, k)
        /\ h' = [h EXCEPT !.exitWrites = WriteCalls(k), !.exitWriteFailed = (k < 3)]
    /\ pc' = "restore_close"
    /\ UNCHANGED <<holder, op, frame, tried_times, try_times, to_open, to_close,
                   text_old, body, outcome, urlVars, toolVars>>

\* "finally: CloseClipboard()": reached with the clipboard open after the
\* writes, and with the clipboard not open when clipboard_open() had raised;
\* then CloseClipboard raises and nothing catches it
restore_close ==
    /\ pc = "restore_close"
    /\ IF holder = "self"
       THEN /\ holder' = "none"
            /\ h' = h
            /\ Finish("returned", body.ret, "none")
       ELSE /\ holder' = holder
            /\ h' = [h EXCEPT !.badClose = TRUE]
            /\ Finish("raised", None, "CloseClipboard")
    /\ UNCHANGED <<clip, op, frame, tried_times, try_times, to_open, to_close,
                   text_old, body, urlVars, toolVars>>

(***************************************************************************)
(* clipboard_to_lowercase / uppercase / pascalcase / camelcase after their *)
(* clipboard_open: the try/finally block                                   *)
(***************************************************************************)
convert_clipboard ==
    /\ pc = "conv"
    /\ holder = "self"
    /\ \E k \in 0..3 :
        LET data == CfText(clip)
            skip == data = None \/ data = ""
            \* the writes made before text.decode('gbk'): none in pascal and
            \* camel case, EmptyClipboard and SetClipboardText(text, CF_TEXT)
            \* in lower and upper case
            before == IF op \in {"clipboard_to_lowercase", "clipboard_to_uppercase"}
                      THEN 2 ELSE 0
            undecoded == ~skip /\ ~gbk_decodes(data) /\ k >= before
            e == IF data = None THEN "GetClipboardData"
                 ELSE IF data = "" THEN "none"
                 ELSE IF undecoded THEN "UnicodeDecodeError"
                 ELSE IF k < 3 THEN "SetClipboardText" ELSE "none"
        IN
        /\ skip => k = 0
        /\ undecoded => k = before
        /\ clip' = IF skip THEN clip ELSE WriteWindow(clip, Convert(op, data), k)
        /\ h' = [h EXCEPT !.wrote = ~skip, !.read = data]
        /\ IF e = "none"
           THEN Finish("returned", None, "none")
           ELSE Finish("raised", None, e)
        /\ holder' = ReleaseInFinally(holder, TRUE, e = "none")
    /\ UNCHANGED <<op, frame, tried_times, try_times, to_open, to_close,
                   text_old, body, urlVars, toolVars>>

(***************************************************************************)
(* Another process using the clipboard                                     *)
(***************************************************************************)
other_open ==
    /\ holder = "none"
    /\ holder' = "other"
    /\ UNCHANGED <<clip, pc, op, frame, tried_times, try_times, to_open, to_close,
                   text_old, body, outcome, h, urlVars, toolVars>>

other_write ==
    /\ holder = "other"
    /\ clip' = BothClip(OtherText)
    /\ h' = [h EXCEPT !.otherWrote = (pc # "idle")]
    /\ UNCHANGED <<holder, pc, op, frame, tried_times, try_times, to_open, to_close,
                   text_old, body, outcome, urlVars, toolVars>>

other_close ==
    /\ holder = "other"
    /\ holder' = "none"
    /\ UNCHANGED <<clip, pc, op, frame, tried_times, try_times, to_open, to_close,
                   text_old, body, outcome, h, urlVars, toolVars>>

(***************************************************************************)
(* The clipboard specification                                             *)
(***************************************************************************)
Init == ClipInit /\ UrlIdle /\ ToolIdle

Next ==
    \/ call_wrapped
    \/ call_convert
    \/ call_clipboard_open
    \/ call_get_text
    \/ call_set_text
    \/ return_to_idle
    \/ clipboard_open
    \/ clipboard_get_text
    \/ clipboard_set_text
    \/ func_end
    \/ send_keys_paste
    \/ id_generate
    \/ send_keys_copy
    \/ body_rest
    \/ context_exit
    \/ restore_write
    \/ restore_close
    \/ convert_clipboard
    \/ other_open
    \/ other_write
    \/ other_close

Spec == Init /\ [][Next]_vars

(***************************************************************************)
(* Claims about the clipboard routines                                     *)
(***************************************************************************)
Finished == pc = "done"

\* CF_TEXT and CF_UNICODETEXT both hold t
HoldsBoth(c, t) == CfText(c) = t /\ CfUnicode(c) = t

\* C1: a wrapped function that found text X on the clipboard, set the
\* clipboard to Y and then raised leaves X on the clipboard (no other process
\* having written it), and its error reaches the caller.
C1_RestoredAfterError ==
    ( /\ Finished
      /\ op = "wrapped_func"
      /\ body.state = "raised"
      /\ outcome.err = "Exception"
      /\ text_old # None
      /\ ~h.otherWrote )
    => /\ HoldsBoth(clip, text_old)
       /\ outcome.state = "raised"

C3_RestoreErrorsSwallowed ==
    (Finished /\ op \in WrappedOps /\ body.state = "returned")
    => outcome.state = "returned"

\* at most max(n, 1) OpenClipboard calls
MaxOpenCalls(n) == IF n >= 1 THEN n ELSE 1

\* C4: clipboard_open(try_times=n) makes at most max(n,1) OpenClipboard
\* calls, sleeps after every failed call but the last allowed one, returns at
\* the first success holding the clipboard, and after max(n,1) failures
\* raises, without a further sleep and without holding the clipboard.
C4_BoundedRetry ==
    /\ h.openCalls <= MaxOpenCalls(try_times)
    /\ (pc = "open" => h.sleeps = h.openCalls /\ h.openCalls = tried_times)
    /\ (Finished /\ op = "clipboard_open") =>
         /\ h.sleeps = h.openCalls - 1
         /\ IF outcome.state = "returned"
            THEN holder = "self"
            ELSE /\ outcome.err = "OpenClipboard"
                 /\ h.openCalls = MaxOpenCalls(try_times)
                 /\ holder # "self"

\* C4 witness: clipboard_open(try_times=3) succeeded at its third call.
C4_Witness ==
    /\ Finished
    /\ op = "clipboard_open"
    /\ try_times = 3
    /\ h.openCalls = 3
    /\ h.sleeps = 2
    /\ outcome.state = "returned"
    /\ holder = "self"

\* C5: an operation ends with a failed acquisition only after
\* DefaultTryTimes consecutive failed OpenClipboard calls (shorter contention
\* is retried and stays invisible).
C5_TransientContentionInvisible ==
    ( /\ Finished
      /\ op \in WrappedOps \cup ConvOps \cup {"clipboard_get_text", "clipboard_set_text"}
      /\ outcome.err = "OpenClipboard" )
    => h.acqFails >= DefaultTryTimes

\* the operations C6 is about
ClosingOps ==
    WrappedOps \cup ConvOps \cup
    (IF to_close THEN {"clipboard_get_text", "clipboard_set_text"} ELSE {})

\* C6: when a core clipboard operation has finished, by returning or by
\* raising, this process does not hold the clipboard.
C6_ReleasedOnEveryExit ==
    (Finished /\ op \in ClosingOps) => holder # "self"

\* C6 witness: a case conversion whose SetClipboardText raised between
\* acquire and release has ended with the clipboard released.
C6_Witness ==
    /\ Finished
    /\ op = "clipboard_to_lowercase"
    /\ outcome = [state |-> "raised", ret |-> None, err |-> "SetClipboardText"]
    /\ h.wrote
    /\ holder = "none"

\* C7: an action that aborts because the clipboard could not be acquired
\* leaves the clipboard content it found when it started (no other process
\* having written it).
C7_NoPartialMutation ==
    ( /\ Finished
      /\ op \in (WrappedOps \ {"wrapped_func"}) \cup ConvOps
      /\ outcome.err = "OpenClipboard"
      /\ ~h.otherWrote )
    => /\ outcome.state = "raised"
       /\ clip = h.clip0

\* C8: when the read at context entry fails, the snapshot is None, the body
\* still runs, the error of the read is not what the caller gets, and the
\* exit code makes no clipboard acquisition and no clipboard write.
C8_EntryFailureAbsorbed ==
    (op \in WrappedOps /\ h.entryFailed) =>
        /\ text_old = None
        /\ pc \in {"body", "set", "id_set", "keys", "func_end", "open", "get",
                   "body_rest", "exit", "done"}
        /\ (pc = "open" => frame = "body_get")
        /\ h.exitOpens = 0
        /\ h.exitWrites = 0
        /\ ~h.badClose
        /\ Finished =>
             /\ body.state \in {"returned", "raised"}
             /\ outcome.state = body.state
             /\ outcome.ret = body.ret

\* C8 witness: paste_text ran to its end after the entry read had failed
\* because the clipboard could not be acquired.
C8_Witness ==
    /\ Finished
    /\ op = "paste_text"
    /\ h.entryFailed
    /\ text_old = None
    /\ body.state = "returned"
    /\ h.pasted = BodyText
    /\ outcome.state = "returned"

(***************************************************************************)
(* create_url_file.  Texts are sequences of one-character strings.         *)
(***************************************************************************)
\* largest number of create_url_file calls in one behaviour
MaxCalls == 3

\* "len_max = 200"
LenMax == 200

\* the letters that occur in these texts
Letters == {"a", "b", "f", "h", "l", "p", "q", "r", "s", "t", "u",
            "A", "B", "C", "D", "E", "F"}
DigitChars == <<"0", "1", "2", "3", "4", "5", "6", "7", "8", "9">>
Digits == {DigitChars[i] : i \in 1..10}
HexDigits == Digits \cup {"A", "B", "C", "D", "E", "F", "a", "b", "c", "d", "e", "f"}

\* quote(): characters never escaped, and the "safe" argument of
\* transform_special_chars (its backquote is no character of these texts)
AlwaysSafe == Letters \cup Digits \cup {"_", ".", "-", "~"}
SafeChars == {"!", "#", "$", "%", "&", "'", "(", ")", "*", "+", ",", "-", ".",
              ";", "=", "@", "[", "]", "^", "_", "{", "}", "~", " "}

\* quote(): the %XX escape of the other characters the URLs can hold
PercentCode(c) ==
    CASE c = "\"" -> <<"%", "2", "2">>
      [] c = ":" -> <<"%", "3", "A">>
      [] c = "?" -> <<"%", "3", "F">>
      [] c = "/" -> <<"%", "2", "F">>
      [] OTHER -> <<"%", "5", "C">>

\* unquote(): the character of a %XX escape
HexChar(a, b) ==
    CASE a = "2" /\ b = "0" -> " "
      [] a = "2" /\ b = "2" -> "\""
      [] a = "2" /\ b = "B" -> "+"
      [] a = "2" /\ b = "F" -> "/"
      [] a = "3" /\ b = "A" -> ":"
      [] a = "3" /\ b = "F" -> "?"
      [] OTHER -> "\\"

\* characters a Windows file name cannot hold: open() raises
InvalidNameChars == {"\"", "*", "?", ":", "/", "<", ">", "|"}

DropFirst(s, n) == SubSeq(s, n + 1, Len(s))
StartsWith(s, pre) == Len(s) >= Len(pre) /\ SubSeq(s, 1, Len(pre)) = pre
\* index of the first character of s that is in set cs (Len(s) + 1 if none)
FirstOf(s, cs) ==
    LET at == {i \in 1..Len(s) : s[i] \in cs}
    IN IF at = {} THEN Len(s) + 1 ELSE CHOOSE i \in at : \A j \in at : i <= j
\* index of the last character c of s (0 if none)
LastOf(s, c) ==
    LET at == {i \in 1..Len(s) : s[i] = c}
    IN IF at = {} THEN 0 ELSE CHOOSE i \in at : \A j \in at : i >= j

\* the concatenation of the texts ss[lo], ..., ss[hi]
RECURSIVE Join(_, _, _)
Join(ss, lo, hi) ==
    IF lo > hi THEN << >>
    ELSE IF lo = hi THEN ss[lo]
    ELSE Join(ss, lo, (lo + hi) \div 2) \o Join(ss, (lo + hi) \div 2 + 1, hi)

\* str.replace('/', '--')
ReplaceSlash(s) ==
    Join([i \in 1..Len(s) |-> IF s[i] = "/" THEN <<"-", "-">> ELSE <<s[i]>>], 1, Len(s))

\* quote(text, safe=...)
Quote(s) ==
    Join([i \in 1..Len(s) |-> IF s[i] \in AlwaysSafe \cup SafeChars THEN <<s[i]>>
                                ELSE PercentCode(s[i])], 1, Len(s))

transform_special_chars(text) == Quote(ReplaceSlash(text))

\* unquote_plus(): '+' becomes ' ', then every %XX with two hex digits is decoded
PlusToSpace(s) == [i \in 1..Len(s) |-> IF s[i] = "+" THEN " " ELSE s[i]]

\* s[i..i+2] is an escape %XX (its two digits belong to no other escape,
\* '%' being no hex digit)
EscapeAt(s, i) ==
    /\ i >= 1
    /\ i + 2 <= Len(s)
    /\ s[i] = "%"
    /\ s[i + 1] \in HexDigits
    /\ s[i + 2] \in HexDigits

Unquote(s) ==
    Join([i \in 1..Len(s) |->
            IF EscapeAt(s, i) THEN <<HexChar(s[i + 1], s[i + 2])>>
            ELSE IF EscapeAt(s, i - 1) \/ EscapeAt(s, i - 2) THEN << >>
            ELSE <<s[i]>>], 1, Len(s))

unquote_plus(s) == Unquote(PlusToSpace(s))

\* str.rstrip('-')
RECURSIVE RStripDash(_)
RStripDash(s) ==
    IF s # << >> /\ s[Len(s)] = "-" THEN RStripDash(SubSeq(s, 1, Len(s) - 1)) ELSE s

\* urlsplit(url): scheme up to the first ':' when only scheme characters
\* precede it, netloc after '//' up to the first of '/', '?', '#', then the
\* fragment after the first '#' and the query after the first '?'
urlsplit(url) ==
    LET colon == FirstOf(url, {":"})
        hasScheme == /\ colon > 1
                     /\ colon <= Len(url)
                     /\ url[1] \in Letters
                     /\ \A i \in 1..(colon - 1) : url[i] \in Letters \cup Digits \cup {"+", "-", "."}
        scheme == IF hasScheme THEN SubSeq(url, 1, colon - 1) ELSE << >>
        rest1 == IF hasScheme THEN DropFirst(url, colon) ELSE url
        hasNetloc == StartsWith(rest1, <<"/", "/">>)
        afterSlashes == DropFirst(rest1, 2)
        netEnd == FirstOf(afterSlashes, {"/", "?", "#"})
        netloc == IF hasNetloc THEN SubSeq(afterSlashes, 1, netEnd - 1) ELSE << >>
        rest2 == IF hasNetloc THEN DropFirst(afterSlashes, netEnd - 1) ELSE rest1
        hash == FirstOf(rest2, {"#"})
        fragment == DropFirst(rest2, hash)
        rest3 == SubSeq(rest2, 1, hash - 1)
        qmark == FirstOf(rest3, {"?"})
        query == DropFirst(rest3, qmark)
        path == SubSeq(rest3, 1, qmark - 1)
    IN [scheme |-> scheme, netloc |-> netloc, path |-> path,
        query |-> query, fragment |-> fragment]

\* decimal digits of n, as '{}'.format(n) writes them
RECURSIVE Decimal(_)
Decimal(n) ==
    IF n < 10 THEN <<DigitChars[n + 1]>>
    ELSE Decimal(n \div 10) \o <<DigitChars[(n % 10) + 1]>>

Sep == "\\"
DotUrl == <<".", "u", "r", "l">>

\* os.path.join(output_dir, name)
PathJoin(dir, name) == dir \o <<Sep>> \o name

\* the file name of a path inside dir
NameIn(dir, path) == DropFirst(path, Len(dir) + 1)

\* os.path.splitext(path): split before the last '.' of the last component
splitext(path) ==
    LET dot == LastOf(path, ".")
        sep == LastOf(path, Sep)
    IN IF dot > sep + 1
       THEN [noext |-> SubSeq(path, 1, dot - 1), ext |-> DropFirst(path, dot - 1)]
       ELSE [noext |-> path, ext |-> << >>]

\* variant: the postfix number starts one lower ("_1" comes first)
RECURSIVE NumberedFromOne(_, _, _, _)
NumberedFromOne(noext, ext, n, existing) ==
    LET new_path == noext \o <<"_">> \o Decimal(n - 1) \o ext
    IN IF new_path \in existing THEN NumberedFromOne(noext, ext, n + 1, existing)
       ELSE new_path

\* transform_file_path, the loop: '{}_{}{}'.format(path_noext, postfix_number, ext)
\* for postfix_number = n, n + 1, ... until the path does not exist
RECURSIVE Numbered(_, _, _, _)
Numbered(noext, ext, n, existing) ==
    LET new_path == noext \o <<"_">> \o Decimal(n) \o ext
    IN IF new_path \in existing THEN Numbered(noext, ext, n + 1, existing)
       ELSE new_path

\* variant: the loop entered without the first test
transform_with_postfix(path, existing) ==
    Numbered(splitext(path).noext, splitext(path).ext, 2, existing)

\* transform_file_path(path) in a file system holding the paths `existing`
transform_file_path(path, existing) ==
    IF path \notin existing THEN path
    ELSE Numbered(splitext(path).noext, splitext(path).ext, 2, existing)

\* open(path, mode='w') succeeds
CanOpen(dir, path) == \A i \in 1..Len(NameIn(dir, path)) : NameIn(dir, path)[i] \notin InvalidNameChars

\* the file name create_url_file derives from the parts of a URL, without ".url"
BaseName(parts) ==
    LET n0 == transform_special_chars(parts.netloc \o parts.path)
        n1 == IF parts.query # << >>
              THEN n0 \o <<"@">> \o transform_special_chars(parts.query) ELSE n0
        n2 == IF parts.fragment # << >>
              THEN n1 \o <<"#">> \o transform_special_chars(parts.fragment) ELSE n1
    IN RStripDash(n2)

HttpPrefix == <<"h", "t", "t", "p", ":", "/", "/">>

\* the URL after "if not scheme: url = 'http://' + url"
WithScheme(url) == IF urlsplit(url).scheme = << >> THEN HttpPrefix \o url ELSE url

\* "if os.path.exists(url_file_path)": the escaped path is the one tested
ExistingEntry(url_file_path, fs) == url_file_path \in DOMAIN fs

\* variant: the second open() made on the decoded name
DecodedFallback(escaped) ==
    SubSeq(unquote_plus(escaped), 1,
           IF Len(unquote_plus(escaped)) < LenMax THEN Len(unquote_plus(escaped)) ELSE LenMax)
        \o DotUrl

\* "except Exception: url_file_path = escaped_url_file_path[:len_max] + '.url'"
EscapedFallback(escaped) ==
    SubSeq(escaped, 1, IF Len(escaped) < LenMax THEN Len(escaped) ELSE LenMax) \o DotUrl

\* create_url_file(url, output_dir) at time now in a file system fs
\* (path -> [content, mtime]): the set of its possible results (os.listdir
\* gives the names in any order), each [fs, result, path, overwrote, fallback, tries] (tries: the open() calls made)
CreateUrlFile(url0, dir, fs, now) ==
    LET url == WithScheme(url0)
        url_file_name == BaseName(urlsplit(url))
        with_space == url_file_name \o <<" ">>
        escaped == PathJoin(dir, url_file_name \o DotUrl)
        renamed == {f \in DOMAIN fs : StartsWith(NameIn(dir, f), with_space)}
        touch(f) == [fs |-> [fs EXCEPT ![f].mtime = now], result |-> "touched",
                     path |-> f, overwrote |-> FALSE, fallback |-> FALSE,
                     tries |-> 0]
        decoded == transform_file_path(unquote_plus(escaped), DOMAIN fs)
        short == IF Len(decoded) > LenMax
                 THEN transform_file_path(SubSeq(decoded, 1, LenMax) \o DotUrl, DOMAIN fs)
                 ELSE decoded
        fallback == EscapedFallback(escaped)
        write(f, fb) == [fs |-> (f :> [content |-> url, mtime |-> now]) @@ fs,
                         result |-> "created", path |-> f, overwrote |-> f \in DOMAIN fs,
                         fallback |-> fb, tries |-> IF fb THEN 2 ELSE 1]
    IN IF ExistingEntry(escaped, fs) THEN {touch(escaped)}
       ELSE IF renamed # {} THEN {touch(f) : f \in renamed}
       ELSE IF CanOpen(dir, short) THEN {write(short, FALSE)}
       ELSE IF CanOpen(dir, fallback) THEN {write(fallback, TRUE)}
       ELSE {[fs |-> fs, result |-> "raised", path |-> << >>, overwrote |-> FALSE,
              fallback |-> FALSE, tries |-> 2]}

(***************************************************************************)
(* The URL archiver specification: create_url_file called again and again  *)
(* on one output directory, empty at first.                                *)
(***************************************************************************)
Repeat(c, n) == [i \in 1..n |-> c]

OutputDir == <<"D">>

HostA == <<"h", "/", "a">>

\* the URLs saved
Urls ==
    { HttpPrefix \o HostA,                                    \* http://h/a
      <<"h", "t", "t", "p", "s", ":", "/", "/">> \o HostA,   \* https://h/a
      HostA,                                                  \* h/a
      HttpPrefix \o HostA \o <<"/">>,                         \* http://h/a/
      HttpPrefix \o HostA \o <<"+", "b">>,                    \* http://h/a+b
      <<"h", "t", "t", "p", "s", ":", "/", "/">> \o HostA \o <<"+", "b">>,  \* https://h/a+b
      HttpPrefix \o HostA \o <<"%", "2", "0", "b">>,          \* http://h/a%20b
      HttpPrefix \o HostA \o <<" ", "b">>,                    \* http://h/a b
      HttpPrefix \o HostA \o <<"?", "q">>,                    \* http://h/a?q
      HttpPrefix \o HostA \o <<"#", "f">>,                    \* http://h/a#f
      HttpPrefix \o HostA \o <<"*", "b">>,                    \* http://h/a*b
      HttpPrefix \o HostA \o <<"%", "2", "2", "b">>,          \* http://h/a%22b
      <<"h", "t", "t", "p", "s", ":", "/", "/">> \o HostA \o <<"%", "2", "2", "b">>,  \* https://h/a%22b
      HttpPrefix \o <<"h", "/">> \o Repeat("a", LenMax),     \* http://h/aaa...a (200 times a)
      <<"h", "t", "t", "p", "s", ":", "/", "/", "h", "/">> \o Repeat("a", LenMax) }  \* https://h/aaa...a

ClipIdle ==
    /\ ClipInit
    /\ clip = EmptyClip

InitUrl == ClipIdle /\ UrlIdle /\ ToolIdle

create_url_file ==
    /\ Len(calls) < MaxCalls
    /\ \E url \in Urls :
        \E r \in CreateUrlFile(url, OutputDir, files, clock + 1) :
            /\ files' = r.fs
            /\ clock' = clock + 1
            /\ calls' = Append(calls, [url |-> url,
                                       result |-> r.result,
                                       path |-> r.path,
                                       overwrote |-> r.overwrote,
                                       fallback |-> r.fallback,
                                       tries |-> r.tries,
                                       unchanged |-> r.fs = files,
                                       before |-> DOMAIN files,
                                       after |-> DOMAIN r.fs,
                                       content |-> IF r.result = "raised" THEN << >>
                                                   ELSE r.fs[r.path].content])
    /\ UNCHANGED <<clipVars, toolVars>>

NextUrl == create_url_file

SpecUrl == InitUrl /\ [][NextUrl]_vars

(***************************************************************************)
(* Claims about create_url_file                                            *)
(***************************************************************************)
\* the path create_url_file tests first: output_dir joined with the escaped
\* file name of the URL
EscapedPath(url) ==
    PathJoin(OutputDir, BaseName(urlsplit(WithScheme(url))) \o DotUrl)

\* C9: a call that repeats the URL of the call before it (which did not
\* raise) creates no file: it touches a file, the directory holds the same
\* files as before, and the touched file is the one the first call created.
C9_IdempotentPerUrl ==
    \A i \in 1..(Len(calls) - 1) :
        (calls[i + 1].url = calls[i].url /\ calls[i].result # "raised") =>
            /\ calls[i + 1].result = "touched"
            /\ calls[i + 1].after = calls[i].after
            /\ (calls[i].result = "created" => calls[i + 1].path = calls[i].path)

\* path with "_2" put before its extension
WithSuffix2(path) == splitext(path).noext \o <<"_", "2">> \o splitext(path).ext

\* the first two calls were made with different URLs of one base file name
TwoUrlsOneName ==
    /\ Len(calls) >= 2
    /\ calls[1].url # calls[2].url
    /\ EscapedPath(calls[1].url) = EscapedPath(calls[2].url)

FallbackPath(url) ==
    SubSeq(EscapedPath(url), 1,
           IF Len(EscapedPath(url)) < LenMax THEN Len(EscapedPath(url)) ELSE LenMax) \o DotUrl

C11_NeverOverwrites ==
    \A i \in 1..Len(calls) :
        calls[i].result = "created" =>
            /\ ~calls[i].overwrote
            /\ calls[i].path \notin calls[i].before

\* C12: create_url_file calls open() at most twice; the second open() is
\* made on the escaped path cut to 200 characters plus ".url"; when that one
\* fails too the call raises and the directory is left as it was.
C12_OneRetryOnEscapedPath ==
    \A i \in 1..Len(calls) :
        /\ calls[i].tries <= 2
        /\ (calls[i].result = "created" /\ ~calls[i].fallback) => calls[i].tries = 1
        /\ (calls[i].result = "created" /\ calls[i].fallback) =>
               /\ calls[i].tries = 2
               /\ calls[i].path = FallbackPath(calls[i].url)
        /\ calls[i].result = "raised" =>
               /\ calls[i].tries = 2
               /\ ~CanOpen(OutputDir, FallbackPath(calls[i].url))
               /\ calls[i].unchanged
               /\ calls[i].after = calls[i].before

\* C12 witness: one call wrote its file at the second open(), another raised
\* after two.
C12_Witness ==
    /\ \E i \in 1..Len(calls) :
           /\ calls[i].result = "created"
           /\ calls[i].fallback
           /\ calls[i].path = FallbackPath(calls[i].url)
    /\ \E i \in 1..Len(calls) : calls[i].result = "raised" /\ calls[i].tries = 2

(***************************************************************************)
(* open_parallel_dir: the function body after clipboard_get_text()         *)
(***************************************************************************)
\* calls of open_parallel_dir made in one behaviour
MaxDirCalls == 2

Seps == {"\\", "/"}

RECURSIVE LStrip(_, _)
LStrip(s, cs) == IF s # << >> /\ s[1] \in cs THEN LStrip(Tail(s), cs) ELSE s

RECURSIVE RStrip(_, _)
RStrip(s, cs) ==
    IF s # << >> /\ s[Len(s)] \in cs THEN RStrip(SubSeq(s, 1, Len(s) - 1), cs) ELSE s

\* str.strip('\\/')
Strip(s, cs) == RStrip(LStrip(s, cs), cs)

\* ntpath.splitdrive(p) of a path with a drive letter or with no drive
splitdrive(p) ==
    IF Len(p) >= 2 /\ p[2] = ":"
    THEN [drive |-> SubSeq(p, 1, 2), rest |-> DropFirst(p, 2)]
    ELSE [drive |-> << >>, rest |-> p]

\* ntpath.dirname(p): up to the last separator, trailing separators removed
\* unless nothing else is left
dirname(p) ==
    LET sd == splitdrive(p)
        at == {i \in 1..Len(sd.rest) : sd.rest[i] \in Seps}
        last == IF at = {} THEN 0 ELSE CHOOSE i \in at : \A j \in at : i >= j
        head == SubSeq(sd.rest, 1, last)
    IN sd.drive \o (IF RStrip(head, Seps) = << >> THEN head ELSE RStrip(head, Seps))

\* dir_path_new.replace('\\', '/')
ToForwardSlashes(s) == [i \in 1..Len(s) |-> IF s[i] = "\\" THEN "/" ELSE s[i]]

\* the name under which a directory is kept in dirs: no trailing separator
DirName(p) == splitdrive(p).drive \o RStrip(splitdrive(p).rest, Seps)

\* os.path.isdir(p)
isdir(p, ds) == DirName(p) \in ds

\* os.makedirs(p): p and its missing parents (the drive's root exists)
makedirs(p, ds) ==
    LET q == DirName(p) \o <<"/">>
    IN ds \cup {SubSeq(q, 1, i - 1) : i \in {j \in 4..Len(q) : q[j] = "/"}}

\* the prefix list of open_parallel_dir, in its order
Prefixes ==
    << <<"S", "t", "u", "d", "y">>,
       <<"S", "o", "f", "t", "w", "a", "r", "e">>,
       <<"S", "o", "f", "t", "w", "a", "r", "e", "D", "a", "t", "a">>,
       <<"A", "l", "l", "\\", "S", "o", "f", "t", "w", "a", "r", "e", "2", "\\", "S", "o", "f", "t", "w", "a", "r", "e", "B", "i", "g">>,
       <<"A", "l", "l", "\\", "S", "o", "f", "t", "w", "a", "r", "e", "2", "\\", "S", "o", "f", "t", "w", "a", "r", "e", "S", "m", "a", "l", "l">> >>

\* variant: the test written as dir_path.startswith(prefix)
MatchesText(dir_path, prefix) == StartsWith(dir_path, prefix)

\* "if (dir_path + '\\').startswith(prefix + '\\')"
Matches(dir_path, prefix) == StartsWith(dir_path \o <<"\\">>, prefix \o <<"\\">>)

\* variant: the loop never stops at a prefix
NoMatch(dir_path, i) == 0

\* "for prefix in [...]": the index of the prefix at which the loop stops
\* (every branch under a match returns), 0 when the loop runs to its end
RECURSIVE FirstMatch(_, _)
FirstMatch(dir_path, i) ==
    IF i > Len(Prefixes) THEN 0
    ELSE IF Matches(dir_path, Prefixes[i]) THEN i
    ELSE FirstMatch(dir_path, i + 1)

\* variant: the loop gives up at the first missing directory
WalkOnce(p, ds) ==
    IF isdir(p, ds) THEN <<[kind |-> "open", path |-> p]>>
    ELSE <<[kind |-> "ignore", path |-> << >>]>>

\* "while True": open the directory if it exists, else go on with its
\* parent, and give up once the parent is a partition root
RECURSIVE Walk(_, _)
Walk(p, ds) ==
    IF isdir(p, ds) THEN <<[kind |-> "open", path |-> p]>>
    ELSE IF splitdrive(dirname(p)).rest \in {<< >>, <<"/">>, <<"\\">>}
         THEN <<[kind |-> "ignore", path |-> << >>]>>
         ELSE Walk(dirname(p), ds)

\* variant: create=True opens without creating
NoMakedirs(p, ds) == ds

\* "if not os.path.isdir(dir_path_new): os.makedirs(dir_path_new)"
EnsureDir(p, ds) == IF isdir(p, ds) THEN ds ELSE makedirs(p, ds)

\* "if not dir_path_in_bar: return"
ReturnsEarly(text) == text = << >>

\* open_parallel_dir(base_dir, create) after clipboard_get_text() returned
\* text, with the directories ds: what webbrowser.open was called on or what
\* was ignored (outcomes), the directories afterwards, the prefix the loop
\* stopped at, the prefixes it tested, whether the last "if" opened base_dir
OpenParallelDir(text, base_dir, create, ds) ==
    LET dir_path == Strip(splitdrive(text).rest, Seps)
        m == FirstMatch(dir_path, 1)
        rel_path == LStrip(DropFirst(dir_path, Len(Prefixes[m])), Seps)
        dir_path_new == ToForwardSlashes(PathJoin(base_dir, rel_path))
        none == [outcomes |-> << >>, ds |-> ds, matched |-> 0, evaluated |-> 0,
                 fallback |-> FALSE, dir_path |-> << >>, candidate |-> << >>]
    IN IF ReturnsEarly(text) THEN none
       ELSE IF m = 0
       THEN [none EXCEPT !.outcomes = <<[kind |-> "open", path |-> base_dir]>>,
                         !.evaluated = Len(Prefixes), !.fallback = TRUE,
                         !.dir_path = dir_path]
       ELSE IF create
       THEN [none EXCEPT !.outcomes = <<[kind |-> "open", path |-> dir_path_new]>>,
                         !.ds = EnsureDir(dir_path_new, ds),
                         !.matched = m, !.evaluated = m,
                         !.dir_path = dir_path, !.candidate = dir_path_new]
       ELSE [none EXCEPT !.outcomes = Walk(dir_path_new, ds),
                         !.matched = m, !.evaluated = m,
                         !.dir_path = dir_path, !.candidate = dir_path_new]

\* base_dir of the hotkeys bound to open_parallel_dir
BaseDirs ==
    { <<"D", ":", "/", "S", "o", "f", "t", "w", "a", "r", "e">>,
      <<"F", ":", "/", "a", "l", "l", "/", "S", "o", "f", "t", "w", "a", "r", "e", "2", "/", "S", "o", "f", "t", "w", "a", "r", "e", "S", "m", "a", "l", "l">> }

\* the texts copied from the location bar
BarTexts ==
    { << >>,
      <<"D", ":", "\\">>,
      <<"D", ":", "\\", "S", "t", "u", "d", "y">>,
      <<"D", ":", "\\", "S", "t", "u", "d", "y", "\\", "a">>,
      <<"D", ":", "\\", "S", "t", "u", "d", "y", "\\", "a", "\\", "b">>,
      <<"D", ":", "\\", "S", "t", "u", "d", "y", "2", "\\", "a">>,
      <<"D", ":", "\\", "S", "o", "f", "t", "w", "a", "r", "e", "\\", "a">>,
      <<"D", ":", "\\", "S", "o", "f", "t", "w", "a", "r", "e", "D", "a", "t", "a", "\\", "a">>,
      <<"D", ":", "\\", "S", "t", "u", "d", "y", "/", "a">>,
      <<"D", ":", "\\", "A", "l", "l", "\\", "S", "o", "f", "t", "w", "a", "r", "e", "2", "\\", "S", "o", "f", "t", "w", "a", "r", "e", "B", "i", "g", "\\", "a">>,
      <<"D", ":", "\\", "s", "t", "u", "d", "y", "\\", "a">> }

\* the directories that exist when the first call is made
InitDirs ==
    { {},
      {<<"D", ":", "/", "S", "o", "f", "t", "w", "a", "r", "e">>},
      {<<"D", ":", "/", "S", "o", "f", "t", "w", "a", "r", "e">>, <<"D", ":", "/", "S", "o", "f", "t", "w", "a", "r", "e", "/", "a">>},
      {<<"D", ":", "/", "S", "o", "f", "t", "w", "a", "r", "e">>, <<"F", ":", "/", "a", "l", "l">>} }

InitDir ==
    /\ ClipIdle
    /\ UrlIdle
    /\ dirs \in InitDirs
    /\ dcalls = << >>
    /\ gen = GenIdle
    /\ arg = None
    /\ res = None

open_parallel_dir ==
    /\ Len(dcalls) < MaxDirCalls
    /\ \E text \in BarTexts, base_dir \in BaseDirs, create \in BOOLEAN :
        LET r == OpenParallelDir(text, base_dir, create, dirs)
        IN /\ dirs' = r.ds
           /\ dcalls' = Append(dcalls, [text |-> text, base_dir |-> base_dir,
                                        create |-> create, before |-> dirs,
                                        after |-> r.ds, outcomes |-> r.outcomes,
                                        matched |-> r.matched,
                                        evaluated |-> r.evaluated,
                                        fallback |-> r.fallback,
                                        dir_path |-> r.dir_path,
                                        candidate |-> r.candidate])
    /\ UNCHANGED <<clipVars, urlVars, gen, arg, res>>

NextDir == open_parallel_dir

SpecDir == InitDir /\ [][NextDir]_vars

(***************************************************************************)
(* Claims about open_parallel_dir                                          *)
(***************************************************************************)
\* the source path of a call: drive removed, separators stripped at both ends
SourcePath(c) == Strip(splitdrive(c.text).rest, Seps)

\* the path is the prefix, or the prefix followed by a separator and more
RuleMatch(path, prefix) == path = prefix \/ StartsWith(path, prefix \o <<Sep>>)

\* the indices of the prefixes that match the path
MatchingPrefixes(path) == {i \in 1..Len(Prefixes) : RuleMatch(path, Prefixes[i])}

\* the first component of a path
FirstComponent(path) == SubSeq(path, 1, FirstOf(path, Seps) - 1)

\* C13: the prefix a call of open_parallel_dir matched is equal to the source
\* path or is followed in it by a separator; a path whose first component is
\* longer than the prefix text it begins with does not match that prefix.
C13_PrefixThenSeparator ==
    \A i \in 1..Len(dcalls) :
        LET c == dcalls[i] IN
        /\ c.matched # 0 => RuleMatch(SourcePath(c), Prefixes[c.matched])
        /\ \A k \in 1..Len(Prefixes) :
               ( /\ StartsWith(FirstComponent(SourcePath(c)), Prefixes[k])
                 /\ FirstComponent(SourcePath(c)) # Prefixes[k] ) => c.matched # k

\* C13 witness: "Study2\a" was looked up and matched nothing, and
\* "SoftwareData\a" matched the third prefix, not "Software".
C13_Witness ==
    /\ \E i \in 1..Len(dcalls) :
           /\ SourcePath(dcalls[i]) = <<"S", "t", "u", "d", "y", "2", "\\", "a">>
           /\ dcalls[i].matched = 0
           /\ dcalls[i].evaluated = Len(Prefixes)
    /\ \E i \in 1..Len(dcalls) :
           /\ SourcePath(dcalls[i]) = <<"S", "o", "f", "t", "w", "a", "r", "e", "D", "a", "t", "a", "\\", "a">>
           /\ dcalls[i].matched = 3

\* the least element of a non-empty set of numbers
Least(ns) == CHOOSE n \in ns : \A k \in ns : n <= k

\* C14: a call of open_parallel_dir has at most one outcome; when some prefix
\* matches the source path the loop stops at the first one in table order,
\* tests no later prefix, builds its candidate from that prefix and does not
\* take the last "open base_dir" branch.
C14_FirstMatchDecides ==
    \A i \in 1..Len(dcalls) :
        LET c == dcalls[i]
            ms == MatchingPrefixes(SourcePath(c))
        IN
        /\ Len(c.outcomes) <= 1
        /\ (c.text # << >> /\ ms # {}) =>
               /\ c.matched = Least(ms)
               /\ c.evaluated = Least(ms)
               /\ ~c.fallback
               /\ Len(c.outcomes) = 1
               /\ c.candidate =
                      ToForwardSlashes(c.base_dir \o <<Sep>> \o
                          LStrip(DropFirst(SourcePath(c), Len(Prefixes[Least(ms)])), Seps))

\* C14 witness: a call stopped at the second prefix and opened a directory, a
\* call stopped at the first and ignored.
C14_Witness ==
    /\ \E i \in 1..Len(dcalls) :
           /\ dcalls[i].matched = 2
           /\ dcalls[i].evaluated = 2
           /\ Len(dcalls[i].outcomes) = 1
           /\ dcalls[i].outcomes[1].kind = "open"
    /\ \E i \in 1..Len(dcalls) :
           /\ dcalls[i].matched = 1
           /\ dcalls[i].outcomes = <<[kind |-> "ignore", path |-> << >>]>>

\* the directory named by p and the directories above it, below the drive's root
UpFrom(p) ==
    LET q == DirName(p) \o <<"/">>
    IN {SubSeq(q, 1, k - 1) : k \in {j \in 4..Len(q) : q[j] = "/"}}

\* the longest path of a non-empty set of paths
Longest(ps) == CHOOSE x \in ps : \A y \in ps : Len(x) >= Len(y)

\* C15: with create=False and a matching prefix the outcome is the candidate
\* if it is a directory, else the nearest directory above it that exists, else
\* "ignore"; no directory is created.
C15_NearestExistingAncestor ==
    \A i \in 1..Len(dcalls) :
        LET c == dcalls[i]
            found == UpFrom(c.candidate) \cap c.before
        IN (c.matched # 0 /\ ~c.create) =>
            /\ c.after = c.before
            /\ Len(c.outcomes) = 1
            /\ IF DirName(c.candidate) \in c.before
               THEN c.outcomes[1] = [kind |-> "open", path |-> c.candidate]
               ELSE IF found # {}
               THEN /\ c.outcomes[1].kind = "open"
                    /\ DirName(c.outcomes[1].path) = Longest(found)
               ELSE c.outcomes[1].kind = "ignore"

\* C15 witness: one call opened a directory above its missing candidate,
\* another found nothing up to the root and ignored.
C15_Witness ==
    /\ \E i \in 1..Len(dcalls) :
           /\ ~dcalls[i].create
           /\ dcalls[i].matched # 0
           /\ DirName(dcalls[i].candidate) \notin dcalls[i].before
           /\ Len(dcalls[i].outcomes) = 1
           /\ dcalls[i].outcomes[1].kind = "open"
           /\ DirName(dcalls[i].outcomes[1].path) # DirName(dcalls[i].candidate)
    /\ \E i \in 1..Len(dcalls) :
           /\ ~dcalls[i].create
           /\ dcalls[i].matched # 0
           /\ dcalls[i].outcomes = <<[kind |-> "ignore", path |-> << >>]>>

\* C16: with create=True and a matching prefix the candidate and its missing
\* parents are directories afterwards, nothing else is added, and the one
\* outcome is "open" of the candidate itself.
C16_CreatesThenOpensCandidate ==
    \A i \in 1..Len(dcalls) :
        LET c == dcalls[i] IN
        (c.matched # 0 /\ c.create) =>
            /\ c.outcomes = <<[kind |-> "open", path |-> c.candidate]>>
            /\ c.after = c.before \cup UpFrom(c.candidate)
            /\ DirName(c.candidate) \in c.after

\* C16 witness: a call created a candidate two levels below the deepest
\* directory that existed, and opened it.
C16_Witness ==
    \E i \in 1..Len(dcalls) :
        /\ dcalls[i].create
        /\ dcalls[i].matched # 0
        /\ Cardinality(UpFrom(dcalls[i].candidate) \ dcalls[i].before) >= 2
        /\ dcalls[i].outcomes = <<[kind |-> "open", path |-> dcalls[i].candidate]>>
        /\ UpFrom(dcalls[i].candidate) \subseteq dirs

\* C17: a call whose source path (the empty one included) matches no prefix
\* opens base_dir, whatever create is, and creates nothing.
C17_NoMatchOpensRoot ==
    \A i \in 1..Len(dcalls) :
        LET c == dcalls[i] IN
        MatchingPrefixes(SourcePath(c)) = {} =>
            /\ c.outcomes = <<[kind |-> "open", path |-> c.base_dir]>>
            /\ c.after = c.before

(***************************************************************************)
(* base62_text_gen: one action per turn of its loop                        *)
(***************************************************************************)
\* largest try_times passed explicitly
MaxGenTry == 3

\* default of base62_text_gen's try_times
DefaultGenTryTimes == 100

\* os.urandom(16)
RandomBytes == 16

\* zbase62.b2a(byte_s): the number of base62 characters that encode that many
\* bytes, ceil(8 * bytes / log2(62)), log2(62) = 5.954196...
EncodedLen == (RandomBytes * 8 * 1000000 + 5954195) \div 5954196

LowerLetters == <<"a", "b", "c", "d", "e", "f", "g", "h", "i", "j", "k", "l", "m",
                  "n", "o", "p", "q", "r", "s", "t", "u", "v", "w", "x", "y", "z">>
UpperLetters == <<"A", "B", "C", "D", "E", "F", "G", "H", "I", "J", "K", "L", "M",
                  "N", "O", "P", "Q", "R", "S", "T", "U", "V", "W", "X", "Y", "Z">>

\* str.upper() / str.lower() of one character
CharUpper(c) ==
    IF \E i \in 1..26 : LowerLetters[i] = c
    THEN UpperLetters[CHOOSE i \in 1..26 : LowerLetters[i] = c] ELSE c
CharLower(c) ==
    IF \E i \in 1..26 : UpperLetters[i] = c
    THEN LowerLetters[CHOOSE i \in 1..26 : UpperLetters[i] = c] ELSE c

\* text.upper() / text.lower()
TextUpper(t) == [i \in 1..Len(t) |-> CharUpper(t[i])]
TextLower(t) == [i \in 1..Len(t) |-> CharLower(t[i])]

\* variant: any digit is accepted as first character
AnyDigitIsOk(text) == text[1] \in Digits

\* base62_text_is_ok(text)
base62_text_is_ok(text) == text[1] \in Digits /\ text[1] # "0"

\* variant: the length taken as lower bound (the encoding is used whole)
NoLimit(text, given, text_length) == text

\* "if text_length is not None: text = text[0:text_length]"
Limit(text, given, text_length) ==
    IF ~given THEN text
    ELSE SubSeq(text, 1, IF text_length < Len(text) THEN text_length ELSE Len(text))

\* values of zbase62.b2a(os.urandom(16)): first character, then filling
Encodings == {<<c>> \o Repeat("b", EncodedLen - 1) : c \in {"0", "1", "9", "a", "Z"}}

\* values of text_length when it is given
TextLengths == {1, 5, EncodedLen, EncodedLen + 1}

InitGen ==
    /\ ClipIdle
    /\ UrlIdle
    /\ dirs = {}
    /\ dcalls = << >>
    /\ gen = GenIdle
    /\ arg = None
    /\ res = None

call_base62_text_gen ==
    /\ gen.pc = "idle"
    /\ \E given \in BOOLEAN, n \in TextLengths, k \in (0..MaxGenTry) \cup {DefaultGenTryTimes} :
        gen' = [GenIdle EXCEPT !.pc = "loop", !.given = given,
                               !.text_length = IF given THEN n ELSE 0, !.try_times = k]
    /\ UNCHANGED <<clipVars, urlVars, dirs, dcalls, arg, res>>

\* one turn of "while True"
base62_text_gen ==
    /\ gen.pc = "loop"
    /\ IF gen.tried_times + 1 > gen.try_times
       THEN gen' = [gen EXCEPT !.pc = "done", !.tried_times = @ + 1, !.text = << >>,
                               !.result = "raised"]
       ELSE \E enc \in Encodings :
               LET text == TextUpper(Limit(enc, gen.given, gen.text_length))
               IN IF base62_text_is_ok(text)
                  THEN gen' = [gen EXCEPT !.pc = "done", !.tried_times = @ + 1,
                                          !.generated = @ + 1, !.text = text,
                                          !.result = "returned"]
                  ELSE gen' = [gen EXCEPT !.tried_times = @ + 1, !.generated = @ + 1,
                                          !.text = text, !.rejected = @ + 1]
    /\ UNCHANGED <<clipVars, urlVars, dirs, dcalls, arg, res>>

\* the caller has the token or the error
base62_text_gen_end ==
    /\ gen.pc = "done"
    /\ gen' = GenIdle
    /\ UNCHANGED <<clipVars, urlVars, dirs, dcalls, arg, res>>

NextGen ==
    \/ call_base62_text_gen
    \/ base62_text_gen
    \/ base62_text_gen_end

SpecGen == InitGen /\ [][NextGen]_vars

\* the first character of an accepted token
NonZeroDigits == {"1", "2", "3", "4", "5", "6", "7", "8", "9"}

\* what holds of every run of base62_text_gen, whatever the length asked for
GenCounts ==
    /\ gen.generated <= gen.try_times
    /\ gen.result = "returned" =>
           /\ gen.text[1] \in NonZeroDigits
           /\ gen.rejected = gen.generated - 1
    /\ gen.result = "raised" =>
           /\ gen.generated = gen.try_times
           /\ gen.rejected = gen.try_times

\* C18 as stated: with text_length = n >= 1 a returned token has n characters,
\* the first in '1'..'9'; at most try_times candidates are generated, each
\* rejected one is replaced, and when all are rejected the call raises.
C18_TokenOfLengthN ==
    (gen.pc # "idle" /\ gen.given) =>
        /\ GenCounts
        /\ gen.result = "returned" => Len(gen.text) = gen.text_length

\* C18 amended: the same, the token having n characters for n up to the
\* length of the encoding (22) and the whole encoding for a larger n.
C18_TokenOfLengthUpToEncoding ==
    (gen.pc # "idle" /\ gen.given) =>
        /\ GenCounts
        /\ gen.result = "returned" =>
               Len(gen.text) = IF gen.text_length <= 22 THEN gen.text_length ELSE 22

\* C18 witness: text_length=5, two candidates rejected, the third returned.
C18_Witness ==
    /\ gen.result = "returned"
    /\ gen.text_length = 5
    /\ gen.rejected = 2
    /\ gen.generated = 3
    /\ Len(gen.text) = 5
    /\ gen.text[1] \in NonZeroDigits

(***************************************************************************)
(* File-name escaping and decoding: transform_special_chars followed by    *)
(* the unquote_plus of create_url_file                                     *)
(***************************************************************************)
\* longest text escaped
MaxTextLen == 3

\* the texts of at most n characters of the set cs
RECURSIVE TextsUpTo(_, _)
TextsUpTo(cs, n) ==
    IF n = 0 THEN {<< >>}
    ELSE TextsUpTo(cs, n - 1) \cup
         {Append(t, c) : t \in {u \in TextsUpTo(cs, n - 1) : Len(u) = n - 1}, c \in cs}

\* alphanumerics and safe characters the escaped texts are made of ("2" is
\* their one hexadecimal digit: the escapes they can hold are "%22")
RoundChars == {"h", "p", "2", "+", "%", "-", " "}

NoResult == [done |-> FALSE]

InitRound ==
    /\ ClipIdle
    /\ UrlIdle
    /\ dirs = {}
    /\ dcalls = << >>
    /\ gen = GenIdle
    /\ arg \in TextsUpTo(RoundChars, MaxTextLen)
    /\ res = NoResult

\* create_url_file's handling of a file name: escape, then decode
escape_then_decode ==
    /\ ~res.done
    /\ res' = [done |-> TRUE,
               escaped |-> transform_special_chars(arg),
               decoded |-> unquote_plus(transform_special_chars(arg))]
    /\ UNCHANGED <<clipVars, urlVars, dirs, dcalls, gen, arg>>

NextRound == escape_then_decode

SpecRound == InitRound /\ [][NextRound]_vars

\* C19: for a text of alphanumerics and safe characters, decoding the escaped
\* text gives the text back.
C19_RoundTrip ==
    res.done => res.decoded = arg

(***************************************************************************)
(* clipboard_to_pascalcase / clipboard_to_camelcase: the try block, with   *)
(* the clipboard open                                                      *)
(***************************************************************************)
Alnum == Digits \cup {LowerLetters[i] : i \in 1..26} \cup {UpperLetters[i] : i \in 1..26}

\* re.sub(r'[^A-Z0-9a-z]', ' ', text)
NonAlnumToSpace(t) == [i \in 1..Len(t) |-> IF t[i] \in Alnum THEN t[i] ELSE " "]

\* text.split() of a text whose only white space is ' ': its words, in order
RECURSIVE SplitWords(_)
SplitWords(t) ==
    IF t = << >> THEN << >>
    ELSE IF t[1] = " " THEN SplitWords(Tail(t))
    ELSE LET end == FirstOf(t, {" "})
         IN <<SubSeq(t, 1, end - 1)>> \o SplitWords(DropFirst(t, end - 1))

\* variant: only the first character is changed
CapitalizeFirstOnly(w) == <<CharUpper(w[1])>> \o Tail(w)

\* word.capitalize() of a non-empty word
Capitalize(w) == <<CharUpper(w[1])>> \o TextLower(Tail(w))

\* ''.join(word.capitalize() for word in text.split()) after the re.sub
PascalCase(t) ==
    LET words == SplitWords(NonAlnumToSpace(t))
    IN Join([i \in 1..Len(words) |-> Capitalize(words[i])], 1, Len(words))

\* "if text: text = text[0].lower() + text[1:]" after the same steps
CamelCase(t) ==
    LET text == PascalCase(t)
    IN IF text # << >> THEN <<CharLower(text[1])>> \o Tail(text) ELSE text

CaseOps == {"clipboard_to_pascalcase", "clipboard_to_camelcase"}

\* characters of the converted texts
ConvChars == {"a", "B", "1", "-", " "}

InitConv ==
    /\ ClipIdle
    /\ UrlIdle
    /\ dirs = {}
    /\ dcalls = << >>
    /\ gen = GenIdle
    /\ arg \in [op : CaseOps, text : TextsUpTo(ConvChars, MaxTextLen)]
    /\ res = NoResult

\* GetClipboardData(CF_TEXT) gave arg.text; of EmptyClipboard and the two
\* SetClipboardText calls the first k succeed
convert_case ==
    /\ ~res.done
    /\ \E k \in 0..3 :
        LET out == IF arg.op = "clipboard_to_pascalcase"
                   THEN PascalCase(arg.text) ELSE CamelCase(arg.text)
        IN IF arg.text = << >>
           THEN res' = [done |-> TRUE, ignored |-> TRUE, out |-> << >>,
                        clip |-> BothClip(arg.text), raised |-> FALSE]
           ELSE res' = [done |-> TRUE, ignored |-> FALSE, out |-> out,
                        clip |-> WriteWindow(BothClip(arg.text), out, k),
                        raised |-> k < 3]
    /\ UNCHANGED <<clipVars, urlVars, dirs, dcalls, gen, arg>>

NextConv == convert_case

SpecConv == InitConv /\ [][NextConv]_vars

\* the characters of t outside [A-Za-z0-9] dropped; of the others, the first
\* of every run upper-cased and the rest of the run changed by rest(_)
RunsJoined(t, rest(_)) ==
    Join([i \in 1..Len(t) |->
            IF t[i] \notin Alnum THEN << >>
            ELSE IF i = 1 \/ t[i - 1] \notin Alnum THEN <<CharUpper(t[i])>>
            ELSE <<rest(t[i])>>], 1, Len(t))

SameChar(c) == c

\* a text with its first character lower-cased
FirstLowered(t) == IF t = << >> THEN t ELSE <<CharLower(t[1])>> \o Tail(t)

C21_ConversionNeverRaises ==
    ( /\ op \in ConvOps
      /\ pc = "done"
      /\ outcome.err \notin {"OpenClipboard", "GetClipboardData", "SetClipboardText"} ) =>
        /\ outcome.state = "returned"
        /\ (h.read = "" /\ ~h.otherWrote) => (~h.wrote /\ clip = h.clip0)

\* C22: this process calls CloseClipboard only while it has the clipboard
\* open: no call of a hotkey function has made a CloseClipboard call without
\* holding the clipboard.
C22_CloseOnlyWhenHeld ==
    ~h.badClose

(***************************************************************************)
(* Further claims about open_parallel_dir (specification SpecDir)          *)
(***************************************************************************)
\* C23: with create=False and a matching prefix, a directory that is opened
\* is base_dir or lies below base_dir.
C23_OpenedInsideDestination ==
    \A i \in 1..Len(dcalls) :
        LET c == dcalls[i] IN
        (c.matched # 0 /\ ~c.create) =>
            \A k \in 1..Len(c.outcomes) :
                c.outcomes[k].kind = "open" =>
                    \/ DirName(c.outcomes[k].path) = c.base_dir
                    \/ StartsWith(DirName(c.outcomes[k].path), c.base_dir \o <<"/">>)

(***************************************************************************)
(* The two search loops on their own: the upward walk of open_parallel_dir *)
(* and transform_file_path, each applied once to an argument               *)
(***************************************************************************)
\* largest postfix number of a file that exists already
MaxPostfix == 4

\* '{}_{}{}'.format(path_noext, n, ext)
Postfixed(path, n) ==
    splitext(path).noext \o <<"_">> \o Decimal(n) \o splitext(path).ext

\* transform_file_path: postfix_number when the loop ends
RECURSIVE PostfixNumber(_, _, _)
PostfixNumber(path, n, existing) ==
    LET new_path == IF n = 1 THEN path ELSE Postfixed(path, n)
    IN IF new_path \in existing THEN PostfixNumber(path, n + 1, existing) ELSE n

\* open_parallel_dir's "while True": the times dir_path_new is replaced by
\* its parent
RECURSIVE WalkSteps(_, _)
WalkSteps(p, ds) ==
    IF isdir(p, ds) THEN 0
    ELSE IF splitdrive(dirname(p)).rest \in {<< >>, <<"/">>, <<"\\">>} THEN 1
    ELSE 1 + WalkSteps(dirname(p), ds)

\* candidate directories of the walk and the directories that may exist
WalkCandidates ==
    { <<"D", ":", "/", "S", "o", "f", "t", "w", "a", "r", "e", "/", "a", "/", "b">>,
      <<"D", ":", "/", "S", "o", "f", "t", "w", "a", "r", "e", "/">>,
      <<"F", ":", "/", "a", "l", "l", "/", "S", "o", "f", "t", "w", "a", "r", "e", "2", "/", "S", "o", "f", "t", "w", "a", "r", "e", "S", "m", "a", "l", "l", "/", "a">>,
      <<"D", ":", "/", "S", "o", "f", "t", "w", "a", "r", "e", "/", "a">> }
WalkDirs ==
    { <<"D", ":", "/", "S", "o", "f", "t", "w", "a", "r", "e">>,
      <<"D", ":", "/", "S", "o", "f", "t", "w", "a", "r", "e", "/", "a">>,
      <<"F", ":", "/", "a", "l", "l">> }

\* paths given to transform_file_path
TransformPaths == {<<"D", "\\", "h", ".", "u", "r", "l">>, <<"D", "\\", "h">>}

InitSearch ==
    /\ ClipIdle
    /\ UrlIdle
    /\ dirs = {}
    /\ dcalls = << >>
    /\ gen = GenIdle
    /\ \/ arg \in [kind : {"walk"}, path : WalkCandidates, existing : SUBSET WalkDirs]
       \/ \E path \in TransformPaths :
             arg \in [kind : {"transform"}, path : {path},
                      existing : SUBSET ({path} \cup {Postfixed(path, n) : n \in 2..MaxPostfix})]
    /\ res = NoResult

upward_walk ==
    /\ ~res.done
    /\ arg.kind = "walk"
    /\ res' = [done |-> TRUE, outcomes |-> Walk(arg.path, arg.existing),
               path |-> << >>, steps |-> WalkSteps(arg.path, arg.existing)]
    /\ UNCHANGED <<clipVars, urlVars, dirs, dcalls, gen, arg>>

transform_path ==
    /\ ~res.done
    /\ arg.kind = "transform"
    /\ res' = [done |-> TRUE, outcomes |-> << >>,
               path |-> transform_file_path(arg.path, arg.existing),
               steps |-> PostfixNumber(arg.path, 1, arg.existing) - 1]
    /\ UNCHANGED <<clipVars, urlVars, dirs, dcalls, gen, arg>>

NextSearch ==
    \/ upward_walk
    \/ transform_path

SpecSearch == InitSearch /\ [][NextSearch]_vars

\* the components of a path after its drive
Components(p) ==
    LET rest == splitdrive(p).rest
    IN Cardinality({i \in 1..Len(rest) :
                       rest[i] \notin Seps /\ (i = 1 \/ rest[i - 1] \in Seps)})

\* the bound of the walk's steps, given the allowance for a trailing separator
WalkEnds(extra) ==
    arg.kind = "walk" =>
        /\ Len(res.outcomes) = 1
        /\ res.outcomes[1].kind \in {"open", "ignore"}
        /\ res.steps <= Components(arg.path) + extra

\* what transform_file_path returns and after how many steps
TransformEnds ==
    arg.kind = "transform" =>
        /\ res.path \notin arg.existing
        /\ res.steps <= Cardinality(arg.existing)
        /\ arg.path \notin arg.existing => (res.path = arg.path /\ res.steps = 0)

\* C24 as stated: the upward walk ends with one "open" or "ignore" after at
\* most as many steps as the candidate has components; transform_file_path
\* ends after at most as many steps as there are files, with a path that does
\* not exist, the given path when that one does not exist.
C24_SearchLoopsTerminate ==
    res.done => (WalkEnds(0) /\ TransformEnds)

\* C24: the same with one more step allowed to the walk: a candidate that
\* ends with a separator (the join of base_dir with an empty relative path)
\* spends one step on dropping it.
C24_SearchLoopsTerminateWithin ==
    res.done => (WalkEnds(1) /\ TransformEnds)

\* C24 witness: the walk from "D:/Software/" with no such directory took two
\* steps for its one component and ended with "ignore".
C24_Witness ==
    /\ res.done
    /\ arg.kind = "walk"
    /\ res.steps = Components(arg.path) + 1
    /\ res.outcomes[1].kind = "ignore"

\* the functions that put a text on the clipboard and send Ctrl+V
PasteOps == {"paste_text", "id_generate_paste"}

\* C25: in paste_text and id_generate_paste the keystroke is sent with the
\* clipboard released and, unless another process wrote, holding the text to
\* paste; the exit code of the context opens and writes the clipboard only
\* after the keystroke; a token generation that fails leaves the clipboard
\* as it was and sends no keystroke.
C25_WriteReleasePasteRestore ==
    op \in PasteOps =>
        /\ h.pasted # None =>
               /\ ~h.heldAtPaste
               /\ ~h.otherWrote => h.pasted = BodyText
        /\ (pc \in {"restore", "restore_write", "restore_close"}
                \/ h.exitOpens > 0 \/ h.exitWrites > 0) => h.pasted # None
        /\ pc = "keys" => (holder # "self" /\ h.wrote /\ h.exitOpens = 0)
        /\ (pc = "done" /\ outcome.err = "ValueError") =>
               /\ h.pasted = None
               /\ ~h.wrote
               /\ ~h.otherWrote => clip = h.clip0

\* C25 witness: paste_text wrote its text, sent the keystroke with no other
\* writer around, and the exit code then restored the text held before.
C25_Witness ==
    /\ op = "paste_text"
    /\ pc = "done"
    /\ h.pasted = BodyText
    /\ ~h.otherWrote
    /\ h.exitWrites = 3
    /\ clip = h.clip0
    /\ CfText(h.clip0) = "X"

\* C26: with another process holding or writing the clipboard in between,
\* a wrapper that captured a snapshot, whose body returned and which has
\* returned leaves the clipboard with the snapshot or with the other
\* process's value, never with the value its body put there.
C26_NoTemporaryValueLeft ==
    ( /\ op \in WrappedOps
      /\ pc = "done"
      /\ text_old # None
      /\ body.state = "returned"
      /\ outcome.state = "returned" ) =>
        \/ clip = BothClip(text_old)
        \/ clip = BothClip(OtherText)

====
